---- MODULE Spec2Model ----
(***************************************************************************)
(* A model of powerline-shell.py: the Segment / Powerline rendering engine, *)
(* the version-control detection of add_repo_segment, the path             *)
(* segmentation of add_cwd_segment and the recovery of get_valid_cwd.       *)
(*                                                                         *)
(* Text is a sequence of characters, each character a one-element string   *)
(* (a glyph outside ASCII is named by its code point, "U+E0B0").  The      *)
(* rendered prompt is a sequence of cells: a cell is one printed character *)
(* or one colour escape, so that the printed width of a rendering is the   *)
(* number of its character cells.  The shell-specific wrapping of an       *)
(* escape (color_templates) changes no cell and is not modelled.           *)
(***************************************************************************)
EXTENDS Integers, Sequences, FiniteSets, TLC

VARIABLES
    pc,              \* position of the running operation
    mode,            \* Powerline glyph set, "patched" or "compatible"
    segments,        \* Powerline.segments: the left row
    segments_right,  \* Powerline.segments_right: the right row, in append order
    segments_down,   \* Powerline.segments_down: the indicator row
    width,           \* Powerline.width: the target width
    out,             \* the cells returned by Powerline.draw (<<>> before it)
    call,            \* the arguments and the result of the latest Segment(...)
    env,             \* what the three version-control tools would answer
    probed,          \* the systems add_repo_segment has called, in order
    seen,            \* what the latest probe read from its subprocesses
    propagated,      \* the exception that left add_repo_segment ("none")
    fs,              \* the directory tree: PWD, what exists, what chdir allows
    parts,           \* get_valid_cwd: the remaining path components
    up,              \* get_valid_cwd: the candidate directory
    cwd,             \* get_valid_cwd: the value returned
    status,          \* process exit status (-1 while running)
    warnings,        \* the messages passed to warn()
    chdir_to,        \* the directory os.chdir succeeded on (<<"-">> if none)
    args             \* the command line and environment add_cwd_segment reads

powerlineVars == <<mode, segments, segments_right, segments_down, width, out, call>>
repoVars == <<env, probed, seen, propagated>>
cwdVars == <<fs, parts, up, cwd, status, warnings, chdir_to, args>>
vars == <<pc, powerlineVars, repoVars, cwdVars>>

----------------------------------------------------------------------------
(* Python's sequence and string primitives *)

Min(a, b) == IF a < b THEN a ELSE b

Max(a, b) == IF a > b THEN a ELSE b

Range(s) == {s[i] : i \in 1..Len(s)}

\* s[a:] for a non-negative index a (0-based, as in Python)
SliceFrom(s, a) == SubSeq(s, Min(a, Len(s)) + 1, Len(s))

\* s[:b] for a non-negative index b
SliceTo(s, b) == SubSeq(s, 1, Min(b, Len(s)))

\* s[a:] for any integer a: a negative index counts from the end
PySliceFrom(s, a) == IF a >= 0 THEN SliceFrom(s, a) ELSE SliceFrom(s, Max(Len(s) + a, 0))

Reversed(s) == [i \in 1..Len(s) |-> s[Len(s) + 1 - i]]

Zip(a, b) == [i \in 1..Min(Len(a), Len(b)) |-> <<a[i], b[i]>>]

RECURSIVE Join(_)
\* ''.join(strs)
Join(strs) == IF strs = <<>> THEN <<>> ELSE Head(strs) \o Join(Tail(strs))

RECURSIVE JoinWith(_, _)
\* sep.join(strs)
JoinWith(sep, strs) ==
    IF strs = <<>> THEN <<>>
    ELSE IF Len(strs) = 1 THEN strs[1]
    ELSE strs[1] \o sep \o JoinWith(sep, Tail(strs))

RECURSIVE Split(_, _)
\* s.split(c) for a single character c
Split(s, c) ==
    IF \E i \in 1..Len(s) : s[i] = c
    THEN LET i == CHOOSE k \in 1..Len(s) : s[k] = c /\ \A j \in 1..(k - 1) : s[j] # c
         IN  <<SubSeq(s, 1, i - 1)>> \o Split(SubSeq(s, i + 1, Len(s)), c)
    ELSE <<s>>

\* s.find(t) == 0
StartsWith(s, t) == Len(t) <= Len(s) /\ SubSeq(s, 1, Len(t)) = t

Whitespace == {" ", "\n", "\t"}

RECURSIVE RStrip(_)
RStrip(s) == IF s # <<>> /\ s[Len(s)] \in Whitespace THEN RStrip(SubSeq(s, 1, Len(s) - 1)) ELSE s

RECURSIVE LStrip(_)
LStrip(s) == IF s # <<>> /\ s[1] \in Whitespace THEN LStrip(Tail(s)) ELSE s

Strip(s) == LStrip(RStrip(s))

Digits == <<"0", "1", "2", "3", "4", "5", "6", "7", "8", "9">>

DigitValue(c) == (CHOOSE i \in 1..10 : Digits[i] = c) - 1

IsDigit(c) == \E i \in 1..10 : Digits[i] = c

RECURSIVE ParseInt(_)
\* int(s) for a non-empty string of decimal digits
ParseInt(s) == IF s = <<>> THEN 0 ELSE 10 * ParseInt(SubSeq(s, 1, Len(s) - 1)) + DigitValue(s[Len(s)])

RECURSIVE FormatInt(_)
\* '%d' % n for n >= 0
FormatInt(n) == IF n < 10 THEN <<Digits[n + 1]>> ELSE FormatInt(n \div 10) \o <<Digits[(n % 10) + 1]>>

\* an optional argument: Given(v), or NotGiven(d) for a parameter left at None
\* (d only gives the record its shape)
Given(v) == [given |-> TRUE, val |-> v]

NotGiven(d) == [given |-> FALSE, val |-> d]

----------------------------------------------------------------------------
(* class Color *)

PATH_BG == 237
PATH_FG == 250
CWD_FG == 254
CWD_BG == 25
SEPARATOR_FG == 244
TIME_BG == 25
TIME_FG == 254
REPO_CLEAN_BG == 148
REPO_CLEAN_FG == 0
REPO_DIRTY_BG == 161
REPO_DIRTY_FG == 15
SVN_CHANGES_BG == 148
SVN_CHANGES_FG == 22
EXTRA_BG == 238
EXTRA_FG == 252
EXTRA_SEPC == 244
CMD_PASSED_BG == 236
CMD_PASSED_FG == 15
CMD_FAILED_BG == 161
CMD_FAILED_FG == 15

----------------------------------------------------------------------------
(* class Powerline *)

Modes == {"compatible", "patched"}

\* Powerline.symbols
symbols(m) ==
    IF m = "compatible"
    THEN [separator |-> <<"U+25B6">>, separator_thin |-> <<"U+276F">>,
          separator_right |-> <<"U+25C0">>, separator_right_thin |-> <<"U+276E">>]
    ELSE [separator |-> <<"U+E0B0">>, separator_thin |-> <<"U+E0B1">>,
          separator_right |-> <<"U+E0B2">>, separator_right_thin |-> <<"U+E0B3">>]

Ellipsis == <<"U+2026">>

\* one printed character
Ch(c) == [k |-> "ch", c |-> c, n |-> 0]

Text(s) == [i \in 1..Len(s) |-> Ch(s[i])]

\* Powerline.color: the escape '[<prefix>;5;<code>m'
color(prefix, code) == <<[k |-> "color", c |-> prefix, n |-> code]>>

fgcolor(code) == color("38", code)

bgcolor(code) == color("48", code)

\* Powerline.reset: the escape '[0m'
reset == <<[k |-> "reset", c |-> "0", n |-> 0]>>

----------------------------------------------------------------------------
(* class Segment *)

\* Segment.__init__: `separator or powerline.separator`, `separator_fg or bg`
Segment(m, content, fg, bg, separator, separator_fg, right) ==
    [content |-> content, fg |-> fg, bg |-> bg,
     separator |-> IF separator.given /\ separator.val # <<>>
                   THEN separator.val ELSE symbols(m).separator,
     separator_fg |-> IF separator_fg.given /\ separator_fg.val # 0
                      THEN separator_fg.val ELSE bg,
     right |-> right]

\* Segment.width
SegWidth(s) == Len(Join(<<s.content, s.separator>>))

\* Segment.draw; next_segment is <<>> for None and <<segment>> otherwise
SegDraw(s, next_segment) ==
    LET separator_bg == IF next_segment # <<>> THEN bgcolor(next_segment[1].bg) ELSE reset
    IN  IF s.right = TRUE
        THEN Join(<<separator_bg, fgcolor(s.separator_fg), Text(s.separator),
                    fgcolor(s.fg), bgcolor(s.bg), Text(s.content)>>)
        ELSE Join(<<fgcolor(s.fg), bgcolor(s.bg), Text(s.content),
                    separator_bg, fgcolor(s.separator_fg), Text(s.separator)>>)

----------------------------------------------------------------------------
(* Powerline.draw *)

RECURSIVE SumWidth(_)
SumWidth(row) == IF row = <<>> THEN 0 ELSE SegWidth(Head(row)) + SumWidth(Tail(row))

\* row[1:] + [None]
Shifted(row) == [i \in 1..(Len(row) - 1) |-> <<row[i + 1]>>] \o <<(<<>>)>>

\* every segment paired with None: no separator chaining
LeftPairsNoChain(row) == Zip(row, [i \in 1..Len(row) |-> <<>>])

\* zip(row, shifted)
LeftPairs(row) == Zip(row, Shifted(row))

\* the right row as the specification's step 6 words it: each segment of the
\* reversed order paired with the next item of the reversed order
RightPairsNextInReversed(row) == Zip(Reversed(row), Shifted(Reversed(row)))

\* zip(reversed(self.segments_right), reversed(shifted_right))
RightPairs(row) == Zip(Reversed(row), Reversed(Shifted(row)))

DrawPairs(pairs) == Join([i \in 1..Len(pairs) |-> SegDraw(pairs[i][1], pairs[i][2])])

\* total, with the right row's widths left out
DrawTotalLeftOnly(left, right) == SumWidth(left)

\* total = sum of width() over the left row plus over the right row
DrawTotal(left, right) == SumWidth(left) + SumWidth(right)

\* ' ' * spaces: the empty string when spaces <= 0
Spaces(n) == [i \in 1..n |-> Ch(" ")]

draw(left, right, down, w) ==
    LET spaces == w - DrawTotal(left, right)
        fold == Spaces(spaces)
    IN  DrawPairs(LeftPairs(left))
        \o reset \o fold \o DrawPairs(RightPairs(right))
        \o reset \o <<Ch("\n")>> \o DrawPairs(LeftPairs(down))
        \o reset

----------------------------------------------------------------------------
(* The rendering engine driven through its interface: segments are built   *)
(* by Segment(...) and appended to the three rows, then the prompt is      *)
(* drawn.  The argument sets are those of the program's own builders, and  *)
(* an explicit separator_fg of palette index 0.                            *)

MaxLeft == 2
MaxRight == 2
MaxDown == 1

\* --width values (int(self.width)): negative, unset, inside and beyond a row
Widths == {-4, 0, 11, 25}

SegArg(content, fg, bg, separator, separator_fg) ==
    [content |-> content, fg |-> fg, bg |-> bg,
     separator |-> separator, separator_fg |-> separator_fg]

\* arguments of Segment(...) for the left row, as add_cwd_segment and
\* add_svn_segment pass them
LeftArgs(m) ==
    { SegArg(<<" ", "a", " ">>, PATH_FG, PATH_BG,
             Given(symbols(m).separator_thin), Given(SEPARATOR_FG)),
      SegArg(<<" ", "b", "c", " ">>, CWD_FG, CWD_BG, NotGiven(<<>>), NotGiven(0)),
      SegArg(<<" ", "2", " ">>, SVN_CHANGES_FG, SVN_CHANGES_BG, NotGiven(<<>>), Given(0)) }

\* arguments of Segment(...) for the right row, as add_time_segment and
\* add_extra_segment pass them
RightArgs(m) ==
    { SegArg(<<" ", "t", " ">>, TIME_FG, TIME_BG,
             Given(symbols(m).separator_right), NotGiven(0)),
      SegArg(<<" ", "x", "y", " ">>, EXTRA_FG, EXTRA_BG,
             Given(symbols(m).separator_right_thin), Given(EXTRA_SEPC)) }

\* arguments of Segment(...) for the indicator row, as add_root_indicator
DownArgs(m) ==
    { SegArg(<<" ", "$", " ">>, CMD_PASSED_FG, CMD_PASSED_BG, NotGiven(<<>>), NotGiven(0)),
      SegArg(<<" ", "$", " ">>, CMD_FAILED_FG, CMD_FAILED_BG, NotGiven(<<>>), NotGiven(0)) }

NoCall == [made |-> FALSE]

Construct(a, right) ==
    [made |-> TRUE, args |-> a,
     seg |-> Segment(mode, a.content, a.fg, a.bg, a.separator, a.separator_fg, right)]

IdleRepo ==
    /\ env = [git |-> "absent", svn |-> "absent", hg |-> "absent"]
    /\ probed = <<>>
    /\ seen = [system |-> "none"]
    /\ propagated = "none"

IdleCwd ==
    /\ fs = [pwd |-> <<"/">>, lowest |-> 0, chdir_ok |-> TRUE]
    /\ parts = <<>>
    /\ up = <<>>
    /\ cwd = <<>>
    /\ status = -1
    /\ warnings = <<>>
    /\ chdir_to = <<"-">>
    /\ args = [cwd_only |-> FALSE, HOME |-> <<"/", "h">>, names |-> <<>>]

\* Powerline.__init__
Init ==
    /\ pc = "build"
    /\ mode \in Modes
    /\ segments = <<>>
    /\ segments_right = <<>>
    /\ segments_down = <<>>
    /\ width \in Widths
    /\ out = <<>>
    /\ call = NoCall
    /\ IdleRepo
    /\ IdleCwd

\* powerline.append(Segment(...))
append ==
    /\ pc = "build"
    /\ Len(segments) < MaxLeft
    /\ \E a \in LeftArgs(mode) :
         /\ call' = Construct(a, FALSE)
         /\ segments' = Append(segments, call'.seg)
    /\ UNCHANGED <<pc, mode, segments_right, segments_down, width, out, repoVars, cwdVars>>

\* powerline.append_right(Segment(..., right=True))
append_right ==
    /\ pc = "build"
    /\ Len(segments_right) < MaxRight
    /\ \E a \in RightArgs(mode) :
         /\ call' = Construct(a, TRUE)
         /\ segments_right' = Append(segments_right, call'.seg)
    /\ UNCHANGED <<pc, mode, segments, segments_down, width, out, repoVars, cwdVars>>

\* powerline.append_down(Segment(...))
append_down ==
    /\ pc = "build"
    /\ Len(segments_down) < MaxDown
    /\ \E a \in DownArgs(mode) :
         /\ call' = Construct(a, FALSE)
         /\ segments_down' = Append(segments_down, call'.seg)
    /\ UNCHANGED <<pc, mode, segments, segments_right, width, out, repoVars, cwdVars>>

\* sys.stdout.write(p.draw())
Draw ==
    /\ pc = "build"
    /\ out' = draw(segments, segments_right, segments_down, width)
    /\ pc' = "drawn"
    /\ UNCHANGED <<mode, segments, segments_right, segments_down, width, call, repoVars, cwdVars>>

Next == append \/ append_right \/ append_down \/ Draw

Spec == Init /\ [][Next]_vars

----------------------------------------------------------------------------
(* Version-control detection: add_git_segment, add_svn_segment,            *)
(* add_hg_segment and the dispatch loop of add_repo_segment.               *)
(*                                                                         *)
(* What a subprocess answers is an input.  A line of `git status` is a     *)
(* sequence of tokens: each literal phrase the code searches for is one    *)
(* token, each digit is one token.  A builder yields its return value, the *)
(* exception that left it ("none" if none), the failure met inside it      *)
(* (also when it caught it itself) and the two rows it may have appended   *)
(* to.                                                                     *)

MaxGitLines == 2
MaxSvnLines == 2
MaxHgLines == 2

\* the exceptions add_repo_segment catches
ProcFailures == {"OSError", "CalledProcessError"}

Outcome(ret, exc, failure, left, right) ==
    [ret |-> ret, exc |-> exc, failure |-> failure, left |-> left, right |-> right]

\* ' %s ' % s
Padded(s) == <<" ">> \o s \o <<" ">>

UpArrow == <<"U+21E1">>

DownArrow == <<"U+21E3">>

\* the first match of r"Your branch is (ahead|behind).*?(\d+) comm" in a line:
\* <<>> when there is none, else <<(direction, digits)>>
OriginStatus(line) ==
    LET Counts(i) ==
            {km \in (i..Len(line)) \X (i..Len(line)) :
                /\ km[1] <= km[2]
                /\ \A j \in km[1]..km[2] : IsDigit(line[j])
                /\ km[2] < Len(line)
                /\ line[km[2] + 1] = " comm"}
        Starts == {i \in 1..(Len(line) - 1) :
                     /\ line[i] = "Your branch is "
                     /\ line[i + 1] \in {"ahead", "behind"}
                     /\ Counts(i + 2) # {}}
    IN  IF Starts = {} THEN <<>>
        ELSE LET i == CHOOSE a \in Starts : \A b \in Starts : a <= b
                 km == CHOOSE c \in Counts(i + 2) : \A d \in Counts(i + 2) : c[1] <= d[1]
             IN  <<(<<line[i + 1], SubSeq(line, km[1], km[2])>>)>>

\* the badge with both arrows exchanged
OriginPositionSwapped(origin_status) ==
    <<" ">> \o FormatInt(ParseInt(origin_status[1][2]))
    \o (IF origin_status[1][1] = "behind" THEN UpArrow ELSE <<>>)
    \o (IF origin_status[1][1] = "ahead" THEN DownArrow ELSE <<>>)

\* " %d" % int(count), then the arrow of the direction
OriginPosition(origin_status) ==
    <<" ">> \o FormatInt(ParseInt(origin_status[1][2]))
    \o (IF origin_status[1][1] = "behind" THEN DownArrow ELSE <<>>)
    \o (IF origin_status[1][1] = "ahead" THEN UpArrow ELSE <<>>)

RECURSIVE GitStatusLoop(_, _)
\* the loop over output.split('\n')
GitStatusLoop(lines, acc) ==
    IF lines = <<>> THEN acc
    ELSE LET line == Head(lines)
             origin_status == OriginStatus(line)
         IN  GitStatusLoop(Tail(lines),
                 [has_pending_commits |->
                      IF "nothing to commit" \in Range(line)
                      THEN FALSE ELSE acc.has_pending_commits,
                  has_untracked_files |->
                      IF "Untracked files" \in Range(line)
                      THEN TRUE ELSE acc.has_untracked_files,
                  origin_position |->
                      IF origin_status # <<>>
                      THEN OriginPosition(origin_status) ELSE acc.origin_position])

get_git_status(lines) ==
    GitStatusLoop(lines, [has_pending_commits |-> TRUE,
                          has_untracked_files |-> FALSE,
                          origin_position |-> <<>>])

\* io: popen_branch and popen_status are the exception Popen raises ("none"
\* if none), branch_out the output of `git branch | grep -e '\*'`,
\* status_out the lines of `git status`
add_git_segment(m, left, right, io) ==
    IF io.popen_branch # "none"
    THEN Outcome("raised", io.popen_branch, io.popen_branch, left, right)
    ELSE LET output == Strip(io.branch_out)
         IN  IF output = <<>> THEN Outcome("False", "none", "none", left, right)
             ELSE IF io.popen_status # "none"
             THEN Outcome("raised", io.popen_status, io.popen_status, left, right)
             ELSE LET st == get_git_status(io.status_out)
                      branch == SliceFrom(RStrip(output), 2) \o st.origin_position
                                \o (IF st.has_untracked_files THEN <<" ", "+">> ELSE <<>>)
                      bg == IF st.has_pending_commits THEN REPO_DIRTY_BG ELSE REPO_CLEAN_BG
                      fg == IF st.has_pending_commits THEN REPO_DIRTY_FG ELSE REPO_CLEAN_FG
                  IN  Outcome("True", "none", "none", left,
                              Append(right, Segment(m, Padded(branch), fg, bg,
                                                    Given(symbols(m).separator_right),
                                                    NotGiven(0), TRUE)))

\* the first characters grep's bracket expression [ACDIMR\!\~] matches (a
\* backslash inside a bracket expression is an ordinary character)
SvnCounted == {"A", "C", "D", "I", "M", "R", "\\", "!", "~"}

\* grep -c '^[...]': the number of lines whose first character is in chars
GrepCount(lines, chars) ==
    Cardinality({i \in 1..Len(lines) : lines[i] # <<>> /\ lines[i][1] \in chars})

\* io: popen_probe and popen_count are the exception Popen raises, stderr
\* the error output of the first `svn status`, status_out the lines of the
\* second
add_svn_segment(m, left, right, io) ==
    IF io.popen_probe # "none"
    THEN Outcome("raised", io.popen_probe, io.popen_probe, left, right)
    ELSE IF Len(Strip(io.stderr)) # 0
    THEN Outcome("None", "none", "none", left, right)
    ELSE IF io.popen_count # "none"
    THEN Outcome("False", "none", io.popen_count, left, right)
    ELSE LET output == Strip(FormatInt(GrepCount(io.status_out, SvnCounted)) \o <<"\n">>)
         IN  IF Len(output) > 0 /\ ParseInt(output) > 0
             THEN Outcome("True", "none", "none",
                          Append(left, Segment(m, Padded(Strip(output)),
                                               SVN_CHANGES_FG, SVN_CHANGES_BG,
                                               NotGiven(<<>>), NotGiven(0), FALSE)),
                          right)
             ELSE Outcome("True", "none", "none", left, right)

RECURSIVE HgStatusLoop(_, _)
\* the loop over output.split('\n')
HgStatusLoop(lines, acc) ==
    IF lines = <<>> THEN acc
    ELSE LET line == Head(lines)
         IN  HgStatusLoop(Tail(lines),
                 IF line = <<>> THEN acc
                 ELSE IF line[1] = "?" THEN [acc EXCEPT !.has_untracked_files = TRUE]
                 ELSE IF line[1] = "!" THEN [acc EXCEPT !.has_missing_files = TRUE]
                 ELSE [acc EXCEPT !.has_modified_files = TRUE])

get_hg_status(lines) ==
    HgStatusLoop(lines, [has_modified_files |-> FALSE,
                         has_untracked_files |-> FALSE,
                         has_missing_files |-> FALSE])

\* io: popen_branch and popen_status are the exception raised, branch_out
\* the output of `hg branch 2> /dev/null`, status_out the lines of `hg status`
add_hg_segment(m, left, right, io) ==
    IF io.popen_branch # "none"
    THEN Outcome("raised", io.popen_branch, io.popen_branch, left, right)
    ELSE LET branch == RStrip(io.branch_out)
         IN  IF Len(branch) = 0 THEN Outcome("False", "none", "none", left, right)
             ELSE IF io.popen_status # "none"
             THEN Outcome("raised", io.popen_status, io.popen_status, left, right)
             ELSE LET st == get_hg_status(io.status_out)
                      dirty == st.has_modified_files \/ st.has_untracked_files
                               \/ st.has_missing_files
                      extra == (IF st.has_untracked_files THEN <<"+">> ELSE <<>>)
                               \o (IF st.has_missing_files THEN <<"!">> ELSE <<>>)
                      label == IF dirty /\ extra # <<>>
                               THEN branch \o <<" ">> \o extra ELSE branch
                      bg == IF dirty THEN REPO_DIRTY_BG ELSE REPO_CLEAN_BG
                      fg == IF dirty THEN REPO_DIRTY_FG ELSE REPO_CLEAN_FG
                  IN  Outcome("True", "none", "none", left,
                              Append(right, Segment(m, Padded(label), fg, bg,
                                                    Given(symbols(m).separator_right),
                                                    NotGiven(0), TRUE)))

\* the loop body with the `return` left out
AfterProbeNeverReturns(res) ==
    IF res.exc \in ProcFailures THEN "continue"
    ELSE IF res.exc # "none" THEN "raise"
    ELSE "continue"

\* the loop body with the two except clauses left out
AfterProbeNoCatch(res) ==
    IF res.exc # "none" THEN "raise"
    ELSE IF res.ret = "True" THEN "return"
    ELSE "continue"

\* the body of add_repo_segment's loop: return on a true result, pass on
\* CalledProcessError and OSError, go on otherwise
AfterProbe(res) ==
    IF res.exc \in ProcFailures THEN "continue"
    ELSE IF res.exc # "none" THEN "raise"
    ELSE IF res.ret = "True" THEN "return"
    ELSE "continue"

\* the tuple (add_git_segment, add_svn_segment, add_hg_segment)
Candidates == <<"git", "svn", "hg">>

\* the position after candidate number i gave res
PcAfter(i, res) ==
    IF AfterProbe(res) = "continue" /\ i < Len(Candidates) THEN Candidates[i + 1]
    ELSE IF AfterProbe(res) = "raise" THEN "raised"
    ELSE "done"

----------------------------------------------------------------------------
(* The inputs of the detection: what each tool answers in this directory *)

Presence == {"absent", "present", "fails"}

\* exceptions a Popen of a later stage may raise
MayFail == {"none"} \cup ProcFailures

\* the exception raised by the first subprocess of a system answering a
FirstPopen(a) == IF a = "fails" THEN ProcFailures ELSE {"none"}

GitBranchLine == <<"*", " ", "m", "a", "i", "n", "\n">>

OnBranch == <<"On branch main">>

AheadBy3 == <<"Your branch is ", "ahead", " of 'origin/main' by ", "3", " comm", "its.">>

BehindBy12 ==
    <<"Your branch is ", "behind", " 'origin/main' by ", "1", "2", " comm",
      "its, and can be fast-forwarded.">>

AheadBy07 ==
    <<"Your branch is ", "ahead", " of 'origin/v", "2", "' by ", "0", "7", " comm", "its.">>

UpToDate == <<"Your branch is ", "up to date with 'origin/main'.">>

NothingToCommit == <<"nothing to commit", ", working tree clean">>

UntrackedHeader == <<"Untracked files", ":">>

NotStaged == <<"Changes not staged for commit:">>

GitLines ==
    {OnBranch, AheadBy3, BehindBy12, AheadBy07, UpToDate, NothingToCommit,
     UntrackedHeader, NotStaged}

\* a `svn status` line: the status code, then the path
SvnLine(code) == <<code, " ", " ", "f">>

SvnCodes == {"A", "C", "D", "I", "M", "R", "X", "?", "!", "~", " ", "\\"}

SvnLines == {SvnLine(c) : c \in SvnCodes}

SvnError == <<"s", "v", "n", ":", " ", "W", "\n">>

HgLines == {<<"?", " ", "f">>, <<"!", " ", "f">>, <<"M", " ", "f">>, <<>>}

HgBranchLine == <<"d", "e", "v", "\n">>

Texts(lines, max) == UNION {[1..n -> lines] : n \in 0..max}

\* the rows as __main__ leaves them before add_repo_segment: the cwd
\* segment on the left, the time segment on the right
RowsBeforeRepo(m) ==
    [left |-> <<Segment(m, Padded(<<"~">>), CWD_FG, CWD_BG, NotGiven(<<>>), NotGiven(0), FALSE)>>,
     right |-> <<Segment(m, Padded(<<"t">>), TIME_FG, TIME_BG,
                         Given(symbols(m).separator_right), NotGiven(0), TRUE)>>]

InitRepo ==
    /\ pc = "git"
    /\ mode \in Modes
    /\ segments = RowsBeforeRepo(mode).left
    /\ segments_right = RowsBeforeRepo(mode).right
    /\ segments_down = <<>>
    /\ width = 0
    /\ out = <<>>
    /\ call = NoCall
    /\ env \in [git : Presence, svn : Presence, hg : Presence]
    /\ probed = <<>>
    /\ seen = [system |-> "none"]
    /\ propagated = "none"
    /\ IdleCwd

\* one turn of add_repo_segment's loop: candidate number i called with io
Probe(i, io, res) ==
    /\ probed' = Append(probed, [system |-> Candidates[i], ret |-> res.ret,
                                 failure |-> res.failure])
    /\ seen' = [system |-> Candidates[i], io |-> io, ret |-> res.ret]
    /\ segments' = res.left
    /\ segments_right' = res.right
    /\ pc' = PcAfter(i, res)
    /\ propagated' = IF AfterProbe(res) = "raise" THEN res.exc ELSE "none"
    /\ UNCHANGED <<mode, segments_down, width, out, call, env, cwdVars>>

ProbeGit ==
    /\ pc = "git"
    /\ \E pb \in FirstPopen(env.git), ps \in MayFail, text \in Texts(GitLines, MaxGitLines) :
         /\ env.git # "present" => ps = "none" /\ text = <<>>
         /\ ps # "none" => text = <<>>
         /\ LET io == [popen_branch |-> pb,
                       branch_out |-> IF env.git = "present" THEN GitBranchLine ELSE <<>>,
                       popen_status |-> ps,
                       status_out |-> text]
            IN  Probe(1, io, add_git_segment(mode, segments, segments_right, io))

ProbeSvn ==
    /\ pc = "svn"
    /\ \E pp \in FirstPopen(env.svn), pn \in MayFail, text \in Texts(SvnLines, MaxSvnLines) :
         /\ env.svn # "present" => pn = "none" /\ text = <<>>
         /\ pn # "none" => text = <<>>
         /\ LET io == [popen_probe |-> pp,
                       stderr |-> IF env.svn = "present" THEN <<>> ELSE SvnError,
                       popen_count |-> pn,
                       status_out |-> text]
            IN  Probe(2, io, add_svn_segment(mode, segments, segments_right, io))

ProbeHg ==
    /\ pc = "hg"
    /\ \E pb \in FirstPopen(env.hg), ps \in MayFail, text \in Texts(HgLines, MaxHgLines) :
         /\ env.hg # "present" => ps = "none" /\ text = <<>>
         /\ ps # "none" => text = <<>>
         /\ LET io == [popen_branch |-> pb,
                       branch_out |-> IF env.hg = "present" THEN HgBranchLine ELSE <<>>,
                       popen_status |-> ps,
                       status_out |-> text]
            IN  Probe(3, io, add_hg_segment(mode, segments, segments_right, io))

NextRepo == ProbeGit \/ ProbeSvn \/ ProbeHg

SpecRepo == InitRepo /\ [][NextRepo]_vars

----------------------------------------------------------------------------
(* get_valid_cwd.  fs.pwd is $PWD, an absolute path; of its components the *)
(* first fs.lowest still exist as directories (the root always does), and  *)
(* fs.chdir_ok tells whether os.chdir is permitted on an existing one.     *)

MaxPwdDepth == 3

DirNames == {<<"a">>, <<"h">>}

\* the absolute path of a sequence of directory names: "/" for none
PathOf(names) == <<"/">> \o JoinWith(<<"/">>, names)

Paths(max) == {PathOf(names) : names \in UNION {[1..n -> DirNames] : n \in 1..max}}

\* the directory names of an absolute path
NamesOf(path) == IF path = <<"/">> THEN <<>> ELSE Tail(Split(path, "/"))

\* os.path.exists(path): false for the empty string
Exists(path) ==
    /\ path # <<>>
    /\ \E k \in 0..fs.lowest : path = PathOf(SubSeq(NamesOf(fs.pwd), 1, k))

\* os.chdir(path) returns without raising
ChdirSucceeds(path) == Exists(path) /\ fs.chdir_ok

InitCwd ==
    /\ pc = "getcwd"
    /\ mode = "patched"
    /\ segments = <<>>
    /\ segments_right = <<>>
    /\ segments_down = <<>>
    /\ width = 0
    /\ out = <<>>
    /\ call = NoCall
    /\ IdleRepo
    /\ \E p \in Paths(MaxPwdDepth) :
         fs \in [pwd : {p}, lowest : 0..Len(NamesOf(p)), chdir_ok : BOOLEAN]
    /\ parts = <<>>
    /\ up = <<>>
    /\ cwd = <<>>
    /\ status = -1
    /\ warnings = <<>>
    /\ chdir_to = <<"-">>
    /\ args = [cwd_only |-> FALSE, HOME |-> <<"/", "h">>, names |-> <<>>]

\* try: cwd = os.getcwd(); on failure cwd = $PWD, parts = cwd.split(os.sep), up = cwd
GetCwd ==
    /\ pc = "getcwd"
    /\ cwd' = fs.pwd
    /\ IF fs.lowest = Len(NamesOf(fs.pwd))
       THEN /\ pc' = "returned"
            /\ UNCHANGED <<parts, up>>
       ELSE /\ pc' = "walk"
            /\ parts' = Split(fs.pwd, "/")
            /\ up' = fs.pwd
    /\ UNCHANGED <<powerlineVars, repoVars, fs, status, warnings, chdir_to, args>>

\* one turn of `while parts and not os.path.exists(up)`
WalkUp ==
    /\ pc = "walk"
    /\ parts # <<>> /\ ~Exists(up)
    /\ parts' = SubSeq(parts, 1, Len(parts) - 1)
    /\ up' = JoinWith(<<"/">>, parts')
    /\ UNCHANGED <<pc, powerlineVars, repoVars, fs, cwd, status, warnings, chdir_to, args>>

\* after the loop: os.chdir(up), then the warning, or the warning and sys.exit(1)
Chdir ==
    /\ pc = "walk"
    /\ ~(parts # <<>> /\ ~Exists(up))
    /\ IF ChdirSucceeds(up)
       THEN /\ chdir_to' = up
            /\ warnings' = Append(warnings, [msg |-> "Lowest valid directory", dir |-> up])
            /\ pc' = "returned"
            /\ UNCHANGED status
       ELSE /\ warnings' = Append(warnings, [msg |-> "invalid", dir |-> <<>>])
            /\ status' = 1
            /\ pc' = "exited"
            /\ UNCHANGED chdir_to
    /\ UNCHANGED <<powerlineVars, repoVars, fs, parts, up, cwd, args>>

NextCwd == GetCwd \/ WalkUp \/ Chdir

SpecCwd == InitCwd /\ [][NextCwd]_vars

----------------------------------------------------------------------------
(* add_cwd_segment.  cwd is the value get_valid_cwd returned; args.names    *)
(* are the directory names it was built from.                              *)

MaxNames == 6

\* the maxdepth __main__ passes
MaxDepthArg == 4

Homes == {<<"/", "h">>, <<"/", "h", "/", "a">>}

\* names[:2] + [ellipsis] + names[3 - maxdepth:]: one name too few is kept
CollapseOneShort(names, maxdepth) ==
    IF Len(names) > maxdepth
    THEN SliceTo(names, 2) \o <<Ellipsis>> \o PySliceFrom(names, 3 - maxdepth)
    ELSE names

\* names[:2] + [ellipsis] + names[2 - maxdepth:] when len(names) > maxdepth
Collapse(names, maxdepth) ==
    IF Len(names) > maxdepth
    THEN SliceTo(names, 2) \o <<Ellipsis>> \o PySliceFrom(names, 2 - maxdepth)
    ELSE names

\* the names add_cwd_segment splits the path into
CwdNames(path, home, maxdepth) ==
    LET short == IF StartsWith(path, home)
                 THEN <<"~">> \o SliceFrom(path, Len(home)) ELSE path
        rel == IF short[1] = "/" THEN SliceFrom(short, 1) ELSE short
    IN  Collapse(Split(rel, "/"), maxdepth)

add_cwd_segment(m, left, path, home, maxdepth, cwd_only) ==
    LET names == CwdNames(path, home, maxdepth)
        PathSegment(n) ==
            Segment(m, Padded(names[n + 1]), PATH_FG, PATH_BG,
                    Given(IF n = Len(names) - 2 THEN symbols(m).separator
                          ELSE symbols(m).separator_thin),
                    Given(IF n = Len(names) - 2 THEN PATH_BG ELSE SEPARATOR_FG),
                    FALSE)
    IN  left
        \o (IF cwd_only THEN <<>> ELSE [i \in 1..(Len(names) - 1) |-> PathSegment(i - 1)])
        \o <<Segment(m, Padded(names[Len(names)]), CWD_FG, CWD_BG,
                     NotGiven(<<>>), NotGiven(0), FALSE)>>

InitPath ==
    /\ pc = "cwd"
    /\ mode \in Modes
    /\ segments = <<>>
    /\ segments_right = <<>>
    /\ segments_down = <<>>
    /\ width = 0
    /\ out = <<>>
    /\ call = NoCall
    /\ IdleRepo
    /\ fs = [pwd |-> <<"/">>, lowest |-> 0, chdir_ok |-> TRUE]
    /\ parts = <<>>
    /\ up = <<>>
    /\ \E names \in UNION {[1..n -> DirNames] : n \in 1..MaxNames} :
         /\ cwd = PathOf(names)
         /\ args \in [cwd_only : BOOLEAN, HOME : Homes, names : {names}]
    /\ status = -1
    /\ warnings = <<>>
    /\ chdir_to = <<"-">>

\* add_cwd_segment(p, cwd, 4, args.cwd_only)
AddCwdSegment ==
    /\ pc = "cwd"
    /\ segments' = add_cwd_segment(mode, segments, cwd, args.HOME, MaxDepthArg, args.cwd_only)
    /\ pc' = "build"
    /\ UNCHANGED <<mode, segments_right, segments_down, width, out, call, repoVars, cwdVars>>

NextPath == AddCwdSegment \/ Draw

SpecPath == InitPath /\ [][NextPath]_vars

----------------------------------------------------------------------------
(* Properties of the rendering engine, read off the drawn cells *)

\* the printed characters of a run of cells, escapes left out
Printed(cells) ==
    LET chars == SelectSeq(cells, LAMBDA e : e.k = "ch")
    IN  [i \in 1..Len(chars) |-> chars[i].c]

\* the cells of the first output line
FirstLine(cells) ==
    LET nl == CHOOSE i \in 1..Len(cells) :
                /\ cells[i] = Ch("\n")
                /\ \A j \in 1..(i - 1) : cells[j] # Ch("\n")
    IN  SubSeq(cells, 1, nl - 1)

RECURSIVE Occupied(_)
\* characters of content and separator over a row
Occupied(row) ==
    IF row = <<>> THEN 0
    ELSE Len(Head(row).content) + Len(Head(row).separator) + Occupied(Tail(row))

RECURSIVE RowCells(_)
\* cells a row renders to: per segment four escapes, content and separator
RowCells(row) ==
    IF row = <<>> THEN 0
    ELSE 4 + Len(Head(row).content) + Len(Head(row).separator) + RowCells(Tail(row))

RECURSIVE LeftText(_)
LeftText(row) ==
    IF row = <<>> THEN <<>>
    ELSE Head(row).content \o Head(row).separator \o LeftText(Tail(row))

RECURSIVE RightText(_)
\* the right row as displayed: last appended first, separator before content
RightText(row) ==
    IF row = <<>> THEN <<>>
    ELSE row[Len(row)].separator \o row[Len(row)].content
         \o RightText(SubSeq(row, 1, Len(row) - 1))

Blanks(n) == [i \in 1..n |-> " "]

OccupiedNow == Occupied(segments) + Occupied(segments_right)

PaddingNow == Max(0, width - OccupiedNow)

\* C3: the padding between the rows has length max(0, targetWidth - occupied):
\* the first line prints the left row, exactly that many blanks and the right
\* row, nothing cut, and it is exactly targetWidth wide when occupied <= targetWidth
C3_PaddingFillsToWidth ==
    pc = "drawn" =>
        LET line == Printed(FirstLine(out))
        IN  /\ line = LeftText(segments) \o Blanks(PaddingNow) \o RightText(segments_right)
            /\ Len(line) = OccupiedNow + PaddingNow
            /\ Len(line) >= OccupiedNow
            /\ OccupiedNow <= width => Len(line) = width

C3_Witness ==
    /\ pc = "drawn"
    /\ Len(segments) >= 1
    /\ Len(segments_right) >= 1
    /\ OccupiedNow < width
    /\ Len(Printed(FirstLine(out))) = width

\* index in out of the first cell of the right row
RightStart == RowCells(segments) + 1 + PaddingNow + 1

\* index in out of the first cell of the indicator row
DownStart == RightStart + RowCells(segments_right) + 2

\* the cells of a right-aligned segment drawn with separator background sep_bg
RightCellsOf(s, sep_bg) ==
    sep_bg \o fgcolor(s.separator_fg) \o Text(s.separator)
    \o fgcolor(s.fg) \o bgcolor(s.bg) \o Text(s.content)

\* the cells of a left-aligned segment drawn with separator background sep_bg
LeftCellsOf(s, sep_bg) ==
    fgcolor(s.fg) \o bgcolor(s.bg) \o Text(s.content)
    \o sep_bg \o fgcolor(s.separator_fg) \o Text(s.separator)

\* the cells out holds for the j-th item of a row drawn from index start
Slot(row, start, j) ==
    LET from == start + RowCells(SubSeq(row, 1, j - 1))
    IN  SubSeq(out, from, from + RowCells(<<row[j]>>) - 1)

\* C4 as stated: the right row is drawn in reversed order and each segment's
\* neighbour is the next item of the reversed order; the first-appended
\* segment, last in that order, is drawn against the reset code
C4_NeighbourIsNextInReversed ==
    pc = "drawn" =>
        LET rev == Reversed(segments_right)
            n == Len(rev)
        IN  \A j \in 1..n :
                Slot(rev, RightStart, j) =
                    RightCellsOf(rev[j], IF j < n THEN bgcolor(rev[j + 1].bg) ELSE reset)

\* C4 amended: the right row is drawn in reversed order and each segment's
\* neighbour is the previous item of the reversed order (its successor in
\* append order); the last-appended segment, first in that order, is drawn
\* against the reset code
C4_NeighbourIsPreviousInReversed ==
    pc = "drawn" =>
        LET rev == Reversed(segments_right)
            n == Len(rev)
        IN  /\ \A j \in 1..n :
                Slot(rev, RightStart, j) =
                    RightCellsOf(rev[j], IF j > 1 THEN bgcolor(rev[j - 1].bg) ELSE reset)
            /\ out[RightStart + RowCells(rev)] = reset[1]

C4_Witness ==
    /\ pc = "drawn"
    /\ Len(segments_right) >= 2
    /\ segments_right[1].bg # segments_right[2].bg
    /\ out[RightStart] = reset[1]
    /\ out[RightStart + RowCells(<<segments_right[Len(segments_right)]>>)]
         = bgcolor(segments_right[Len(segments_right)].bg)[1]

\* a left-aligned row is drawn in append order from index start, each
\* segment's separator on the next segment's background, the last on reset
ChainedFrom(row, start) ==
    \A i \in 1..Len(row) :
        Slot(row, start, i) =
            LeftCellsOf(row[i], IF i < Len(row) THEN bgcolor(row[i + 1].bg) ELSE reset)

\* C5: in the left row and the indicator row every segment is drawn as
\* foreground, background, content, separator background, separator
\* foreground, glyph, the separator background being the next segment's
\* background or, for the last segment, the reset code; an empty row adds no
\* cell, so the output is the rows' cells, the padding, three resets and the
\* line break
C5_LeftRowsChainSeparators ==
    pc = "drawn" =>
        /\ ChainedFrom(segments, 1)
        /\ ChainedFrom(segments_down, DownStart)
        /\ out[RowCells(segments) + 1] = reset[1]
        /\ out[DownStart - 1] = Ch("\n")
        /\ Len(out) = RowCells(segments) + RowCells(segments_right)
                      + RowCells(segments_down) + PaddingNow + 4

C5_Witness ==
    /\ pc = "drawn"
    /\ Len(segments) >= 2
    /\ segments[1].bg # segments[2].bg
    /\ Len(segments_down) = 1
    /\ SubSeq(out, 1, RowCells(<<segments[1]>>))
         = LeftCellsOf(segments[1], bgcolor(segments[2].bg))

\* C10 as stated: the separator foreground of a constructed segment is the
\* colour passed whenever one is passed (index 0 included) and the segment's
\* own background otherwise
C10_SeparatorFgIsTheOnePassed ==
    call.made =>
        call.seg.separator_fg =
            IF call.args.separator_fg.given THEN call.args.separator_fg.val ELSE call.seg.bg

----------------------------------------------------------------------------
(* Properties of the version-control detection *)

ProbedSystems == [i \in 1..Len(probed) |-> probed[i].system]

\* no subprocess invocation has failed, now or later in the run
NoFailure ==
    /\ \A sys \in {"git", "svn", "hg"} : env[sys] # "fails"
    /\ \A i \in 1..Len(probed) : probed[i].failure = "none"

\* segments appended to the rows since add_repo_segment began
VcsSegments ==
    (Len(segments) - Len(RowsBeforeRepo(mode).left))
    + (Len(segments_right) - Len(RowsBeforeRepo(mode).right))

\* C1: the systems are probed in the order git, Subversion, Mercurial; a later
\* one is probed only if every earlier one reported absent, none is probed
\* after the first one that reports present, at most one segment is appended,
\* and with git and Subversion both present only the git segment is
\* produced
C1_FirstPresentSystemWins ==
    /\ ProbedSystems = SubSeq(Candidates, 1, Len(probed))
    /\ \A i \in 1..Len(probed) : \A j \in 1..(i - 1) : probed[j].ret # "True"
    /\ VcsSegments \in {0, 1}
    /\ NoFailure =>
         /\ \A i \in 1..Len(probed) : \A j \in 1..(i - 1) : env[Candidates[j]] = "absent"
         /\ \A i \in 1..Len(probed) :
              env[Candidates[i]] = "present" => i = Len(probed) /\ pc = "done"
         /\ pc = "done" =>
              \/ env[Candidates[Len(probed)]] = "present"
              \/ Len(probed) = Len(Candidates)
         /\ (pc = "done" /\ env.git = "present" /\ env.svn = "present") =>
              /\ ProbedSystems = <<"git">>
              /\ segments = RowsBeforeRepo(mode).left
              /\ Len(segments_right) = Len(RowsBeforeRepo(mode).right) + 1

C1_Witness ==
    /\ pc = "done"
    /\ NoFailure
    /\ env.git = "present"
    /\ env.svn = "present"
    /\ ProbedSystems = <<"git">>
    /\ VcsSegments = 1

\* the position of the candidate after sys, "done" after the last
CandidateAfter(sys) ==
    IF sys = "git" THEN "svn" ELSE IF sys = "svn" THEN "hg" ELSE "done"

\* C2: a step in which the probed system fails with OSError or
\* CalledProcessError lets no exception out of add_repo_segment, counts the
\* system as not detected, leaves both rows as they were and moves on to the
\* next candidate (to the end after Mercurial)
C2_FailureFallsThrough ==
    [][ (Len(probed') = Len(probed) + 1 /\ probed'[Len(probed')].failure # "none") =>
            /\ propagated' = "none"
            /\ probed'[Len(probed')].ret # "True"
            /\ segments' = segments
            /\ segments_right' = segments_right
            /\ pc' = CandidateAfter(probed'[Len(probed')].system) ]_vars

C2_Witness ==
    /\ pc = "done"
    /\ Len(probed) = 3
    /\ probed[1].failure = "OSError"
    /\ probed[2].failure = "CalledProcessError"
    /\ probed[3].ret = "True"
    /\ propagated = "none"
    /\ VcsSegments = 1

\* the status codes the specification names: Added, Conflicted, Deleted,
\* Ignored, Modified, Replaced, eXternal
StatedSvnCodes == {"A", "C", "D", "I", "M", "R", "X"}

StatedSvnCount(lines) ==
    Cardinality({i \in 1..Len(lines) : lines[i] # <<>> /\ lines[i][1] \in StatedSvnCodes})

\* C6 as stated: when Subversion is detected the number shown is the count
\* of status lines whose first column is one of A, C, D, I, M, R, X, and one
\* segment showing it is appended exactly when that count is positive
C6_CountsTheStatedCodes ==
    (seen.system = "svn" /\ seen.ret = "True") =>
        LET n == StatedSvnCount(seen.io.status_out)
            before == RowsBeforeRepo(mode).left
        IN  /\ segments_right = RowsBeforeRepo(mode).right
            /\ IF n > 0
               THEN /\ Len(segments) = Len(before) + 1
                    /\ segments[Len(segments)].content = Padded(FormatInt(n))
               ELSE segments = before

\* the badge the specification gives for a status line
StatedBadge(line) ==
    IF line = AheadBy3 THEN <<" ", "3">> \o UpArrow
    ELSE IF line = BehindBy12 THEN <<" ", "1", "2">> \o DownArrow
    ELSE IF line = AheadBy07 THEN <<" ", "7">> \o UpArrow
    ELSE <<>>

\* the badge of a status text: that of its last ahead/behind line
StatedTextBadge(text) ==
    LET hits == {i \in 1..Len(text) : StatedBadge(text[i]) # <<>>}
    IN  IF hits = {} THEN <<>>
        ELSE StatedBadge(text[CHOOSE i \in hits : \A j \in hits : j <= i])

\* C9: when git is detected the segment carries the dirty colours exactly
\* when no status line holds 'nothing to commit', and its label is the branch
\* name, then the ahead/behind badge (blank, count, up or down arrow; nothing
\* without such a line), then ' +' exactly when a line holds 'Untracked files'
C9_GitLabelAndDirty ==
    (seen.system = "git" /\ seen.ret = "True") =>
        LET text == seen.io.status_out
            seg == segments_right[Len(segments_right)]
            clean == \E i \in 1..Len(text) : text[i] = NothingToCommit
            untracked == \E i \in 1..Len(text) : text[i] = UntrackedHeader
        IN  /\ Len(segments_right) = Len(RowsBeforeRepo(mode).right) + 1
            /\ <<seg.fg, seg.bg>> = IF clean THEN <<REPO_CLEAN_FG, REPO_CLEAN_BG>>
                                    ELSE <<REPO_DIRTY_FG, REPO_DIRTY_BG>>
            /\ seg.content = <<" ", "m", "a", "i", "n">> \o StatedTextBadge(text)
                             \o (IF untracked THEN <<" ", "+">> ELSE <<>>) \o <<" ">>
            /\ seg.right = TRUE
            /\ (clean /\ ~untracked /\ StatedTextBadge(text) = <<>>) =>
                   seg.content = <<" ", "m", "a", "i", "n", " ">>

C9_Witness ==
    /\ seen.system = "git"
    /\ seen.ret = "True"
    /\ seen.io.status_out = <<AheadBy3, UntrackedHeader>>
    /\ segments_right[Len(segments_right)].content
         = <<" ", "m", "a", "i", "n", " ", "3", "U+21E1", " ", "+", " ">>
    /\ segments_right[Len(segments_right)].bg = REPO_DIRTY_BG

----------------------------------------------------------------------------
(* Properties of get_valid_cwd *)

\* the lowest directory on the way up from $PWD that exists
LowestExisting == PathOf(SubSeq(NamesOf(fs.pwd), 1, fs.lowest))

\* C7 as stated: when the current directory is gone the walk ends, the
\* process changes into the lowest existing ancestor of $PWD, warns and
\* returns $PWD, and it exits with status 1 only if no ancestor can be
\* changed into; so also when the only existing ancestor is the root
C7_RecoversToLowestAncestor ==
    (pc \in {"returned", "exited"} /\ fs.lowest < Len(NamesOf(fs.pwd))) =>
        /\ status = 1 => ~fs.chdir_ok
        /\ fs.chdir_ok =>
             /\ pc = "returned"
             /\ chdir_to = LowestExisting
             /\ cwd = fs.pwd
             /\ Len(warnings) = 1

----------------------------------------------------------------------------
(* Properties of add_cwd_segment *)

\* the path's components as the prompt names them: the home directory is "~"
PromptNames ==
    LET home == NamesOf(args.HOME)
    IN  IF Len(home) <= Len(args.names) /\ SubSeq(args.names, 1, Len(home)) = home
        THEN <<(<<"~">>)>> \o SubSeq(args.names, Len(home) + 1, Len(args.names))
        ELSE args.names

Contents(row) == [i \in 1..Len(row) |-> row[i].content]

Glyphs == {symbols(m)[f][1] : m \in Modes,
           f \in {"separator", "separator_thin", "separator_right", "separator_right_thin"}}

\* the separators drawn before the content of the row's last segment
SeparatorsBeforeFinal ==
    LET upto == RowCells(SubSeq(segments, 1, Len(segments) - 1))
    IN  Cardinality({i \in 1..upto : out[i].k = "ch" /\ out[i].c \in Glyphs})

\* what every path collapses to: the first 2 names, the ellipsis and the last
\* maxdepth - 2 names when there are more than maxdepth, the last name alone
\* in cwd-only mode
CollapsedRow ==
    LET names == PromptNames
        n == Len(names)
        kept == IF n > MaxDepthArg
                THEN SubSeq(names, 1, 2) \o <<Ellipsis>>
                     \o SubSeq(names, n - (MaxDepthArg - 2) + 1, n)
                ELSE names
    IN  pc \in {"build", "drawn"} =>
            Contents(segments) =
                IF args.cwd_only THEN <<Padded(kept[Len(kept)])>>
                ELSE [i \in 1..Len(kept) |-> Padded(kept[i])]

\* a path of 6 names, not in cwd-only mode, has been drawn
SixNamesDrawn == pc = "drawn" /\ Len(PromptNames) = 6 /\ ~args.cwd_only

\* C8 as stated: a path of more names than the maximum depth collapses to
\* its first 2 names, the ellipsis and its last depth - 2 names; one of 6
\* names with depth 4 is drawn with exactly 3 separators before the final
\* segment
C8_ThreeSeparatorsBeforeFinal ==
    /\ CollapsedRow
    /\ SixNamesDrawn => Len(segments) = 5 /\ SeparatorsBeforeFinal = 3

\* C8 amended: the same collapse; a path of 6 names with depth 4 is drawn
\* with exactly 4 separators before the final segment, three thin ones and
\* the thick one that ends the last segment before it
C8_FourSeparatorsBeforeFinal ==
    /\ CollapsedRow
    /\ SixNamesDrawn =>
         /\ Len(segments) = 5
         /\ SeparatorsBeforeFinal = 4
         /\ \A i \in 1..3 : segments[i].separator = symbols(mode).separator_thin
         /\ segments[4].separator = symbols(mode).separator

C8_Witness ==
    /\ SixNamesDrawn
    /\ args.names = <<(<<"a">>), <<"h">>, <<"a">>, <<"a">>, <<"h">>, <<"a">>>>
    /\ Contents(segments) = <<Padded(<<"a">>), Padded(<<"h">>), Padded(Ellipsis),
                              Padded(<<"h">>), Padded(<<"a">>)>>

====
